---- MODULE Spec2Model ----
(***************************************************************************)
(* Model of the word-guessing solver of src/src/index.js: the Word,        *)
(* WordFilter and Game classes and the train() hill-climber.               *)
(*                                                                         *)
(* A string is the sequence of its characters, so Word.characters          *)
(* (text.split('')) and Word.toString (characters.join('')) are the same   *)
(* sequence; JavaScript indexes it from 0, the model from 1.               *)
(***************************************************************************)
EXTENDS Integers, Naturals, Sequences, FiniteSets, TLC

VARIABLES
  secretWord,     \* Game.secretWord.characters
  allWords,       \* Game.allWords (the dictionary, in order)
  wordFilters,    \* Game.wordFilters: one WordFilter.positions per try
  guess,          \* outcome of the last guessWord() call
  params,         \* the params argument of the outermost play() call
  charsGrading,   \* CHARS_GRADING, the per-character weight table
  pc,             \* where play() / train() stands
  bestAvg,        \* train: bestAvg, a rational <<numerator, denominator>>
  bestAvgParams,  \* train: bestAvgParams
  generation,     \* train: number of generations completed (the for loop's i)
  avgs,           \* train: the avg measured by each completed loop()
  lastParams      \* train: the newParams of the last completed loop()

vars == <<secretWord, allWords, wordFilters, guess, params, charsGrading, pc,
          bestAvg, bestAvgParams, generation, avgs, lastParams>>

gameVars == <<secretWord, allWords, wordFilters, guess, params, charsGrading>>
trainVars == <<bestAvg, bestAvgParams, generation, avgs, lastParams>>

----------------------------------------------------------------------------
(* Bounds of the model *)

\* Length of every word (the dictionary's; the code fixes none for newTry).
WordLen == 2
\* Longest history built by free submitGuess calls.
MaxTries == 2
\* Number of words of a dictionary.
DictLen == 3
\* train(generations, children)
Generations == 2
Children == 2

\* The alphabet, in order.
CharSeq == <<"a", "b", "c">>
Chars == {CharSeq[i] : i \in DOMAIN CharSeq}

\* words of the dictionaries of SpecLongPlay
LongDictLen == 8

----------------------------------------------------------------------------
(* Program constants *)

GRAY == 0
YELLOW == 1
GREEN == 2
\* greenChars starts as [null, null, null, null, null]
GreenSlots == 5
\* play: if (this.wordFilters.length === 6), the nominal budget of tries
LoseAt == 6
\* train: let bestAvg = 100
InitialBestAvg == 100
NULL == "null"

----------------------------------------------------------------------------
(* Helpers on sequences and sets *)

Range(s) == {s[i] : i \in DOMAIN s}

Max(S) == CHOOSE x \in S : \A y \in S : y <= x

Min(S) == CHOOSE x \in S : \A y \in S : x <= y

RECURSIVE Flat(_)
\* Array.prototype.flat over a list of lists
Flat(ss) == IF ss = <<>> THEN <<>> ELSE Head(ss) \o Flat(Tail(ss))

RECURSIVE Unique(_)
\* Array.from(new Set(s)): first occurrences, in order
Unique(s) ==
  IF s = <<>> THEN <<>>
  ELSE LET n == Len(s)
           r == Unique(SubSeq(s, 1, n - 1))
       IN IF s[n] \in Range(r) THEN r ELSE Append(r, s[n])

RECURSIVE SumSeq(_)
SumSeq(s) == IF s = <<>> THEN 0 ELSE Head(s) + SumSeq(Tail(s))

\* All words of length n over the alphabet, in lexicographic order.
RECURSIVE WordSeq(_)
WordSeq(n) ==
  IF n = 0 THEN << <<>> >>
  ELSE LET shorter == WordSeq(n - 1)
           k == Len(CharSeq)
       IN [i \in 1..(k * Len(shorter)) |->
             <<CharSeq[((i - 1) \div Len(shorter)) + 1]>>
               \o shorter[((i - 1) % Len(shorter)) + 1]]

WordList == WordSeq(WordLen)
Words == Range(WordList)

----------------------------------------------------------------------------
(* class Word *)

\* Word.hasChar
hasChar(word, char) == \E i \in DOMAIN word : word[i] = char

----------------------------------------------------------------------------
(* class WordFilter: a WordFilter is its positions, a sequence of          *)
(* [character, value] records                                              *)

Position(character, value) == [character |-> character, value |-> value]

\* WordFilter.doesWordPassGreen
doesWordPassGreen(positions, word) ==
  \A i \in DOMAIN positions :
    positions[i].value = GREEN =>
      (i \in DOMAIN word /\ word[i] = positions[i].character)

\* WordFilter.doesWordPassYellow.  charIndex is findIndex's first match; the
\* read of positions[charIndex] is inside the record for a word no longer
\* than the record.
doesWordPassYellow(positions, word) ==
  \A p \in DOMAIN positions :
    positions[p].value = YELLOW =>
      LET matches == {i \in DOMAIN word : word[i] = positions[p].character}
          wordHasCharacter == matches # {}
      IN IF ~ wordHasCharacter THEN FALSE
         ELSE LET charIndex == Min(matches)
                  positionAlreadyGreen ==
                    /\ charIndex \in DOMAIN positions
                    /\ positions[charIndex].value = GREEN
              IN ~ positionAlreadyGreen

\* WordFilter.doesWordPassGray
doesWordPassGray(positions, word) ==
  \A i \in DOMAIN positions :
    positions[i].value = GRAY => ~ hasChar(word, positions[i].character)

\* WordFilter.doesWordPass
doesWordPass(positions, word) ==
  /\ doesWordPassGreen(positions, word)
  /\ doesWordPassYellow(positions, word)
  /\ doesWordPassGray(positions, word)

\* isWin taking every non-GRAY position for a hit
isWinNoGray(positions) == \A i \in DOMAIN positions : positions[i].value # GRAY

\* WordFilter.isWin
isWin(positions) == \A i \in DOMAIN positions : positions[i].value = GREEN

\* the characters of a WordFilter, joined: the guessed word
WordOf(positions) == [i \in DOMAIN positions |-> positions[i].character]

----------------------------------------------------------------------------
(* Game.newTry *)

\* the word.characters.map(...) of newTry: the provisional classification
FirstPass(word, secret) ==
  [i \in DOMAIN word |->
     IF i \in DOMAIN secret /\ word[i] = secret[i]
       THEN Position(word[i], GREEN)
     ELSE IF hasChar(secret, word[i])
       THEN Position(word[i], YELLOW)
     ELSE Position(word[i], GRAY)]

\* the characters that are GREEN in positions, as newTry recomputes them
RecordGreenChars(positions) ==
  {positions[j].character : j \in {k \in DOMAIN positions : positions[k].value = GREEN}}

RECURSIVE PostPass(_, _)
\* the word.characters.forEach(...) of newTry, from index i on
PostPass(positions, i) ==
  IF i > Len(positions) THEN positions
  ELSE IF positions[i].value = YELLOW
          /\ positions[i].character \in RecordGreenChars(positions)
    THEN PostPass([positions EXCEPT ![i] = Position(positions[i].character, GRAY)], i + 1)
  ELSE PostPass(positions, i + 1)

\* newTry without its duplicate-letter post-pass
newTryNoPostPass(word, secret) == FirstPass(word, secret)

\* Game.newTry
newTry(word, secret) == PostPass(FirstPass(word, secret), 1)

----------------------------------------------------------------------------
(* Game: the constraint sets derived from the history *)

\* usedWords read from the last record alone
usedWordsLastOnly(wfs) ==
  IF wfs = <<>> THEN <<>> ELSE <<WordOf(wfs[Len(wfs)])>>

\* Game.usedWords
usedWords(wfs) == [k \in DOMAIN wfs |-> WordOf(wfs[k])]

\* number of slots of the greenChars array: 5, or more when a record is longer
GreenLen(wfs) == Max({GreenSlots} \cup {Len(wfs[k]) : k \in DOMAIN wfs})

\* greenChars read from the last record alone
greenCharsLastOnly(wfs) ==
  [i \in 1..GreenLen(wfs) |->
     IF wfs # <<>> /\ i \in DOMAIN wfs[Len(wfs)] /\ wfs[Len(wfs)][i].value = GREEN
       THEN wfs[Len(wfs)][i].character
       ELSE NULL]

\* Game.greenChars: the last GREEN character written at each index, else null
greenChars(wfs) ==
  [i \in 1..GreenLen(wfs) |->
     LET ks == {k \in DOMAIN wfs : i \in DOMAIN wfs[k] /\ wfs[k][i].value = GREEN}
     IN IF ks = {} THEN NULL ELSE wfs[Max(ks)][i].character]

\* the distinct characters of one colour over the whole history, in order
ColourChars(wfs, colour) ==
  LET hits == SelectSeq(Flat(wfs), LAMBDA p : p.value = colour)
  IN Unique([i \in DOMAIN hits |-> hits[i].character])

\* yellowChars without the filter on greenChars
yellowCharsUnfiltered(wfs) == ColourChars(wfs, YELLOW)

\* Game.yellowChars
yellowChars(wfs) ==
  LET greens == Range(greenChars(wfs))
  IN SelectSeq(ColourChars(wfs, YELLOW), LAMBDA c : c \notin greens)

\* grayChars without the filter on greenChars
grayCharsUnfiltered(wfs) == ColourChars(wfs, GRAY)

\* Game.grayChars
grayChars(wfs) ==
  LET greens == Range(greenChars(wfs))
  IN SelectSeq(ColourChars(wfs, GRAY), LAMBDA c : c \notin greens)

\* evaluateWord with the statements after its unconditional return true live
evaluateWordDeadBranch(word, wfs) ==
  LET gc == greenChars(wfs)
      yc == yellowChars(wfs)
      gr == grayChars(wfs)
      passGray == ~ \E i \in DOMAIN gr : hasChar(word, gr[i])
      passGreen == \A i \in DOMAIN gc :
                      IF gc[i] = NULL THEN TRUE
                      ELSE i \in DOMAIN word /\ word[i] = gc[i]
      passYellow == \A i \in DOMAIN yc :
                      IF ~ hasChar(word, yc[i]) THEN FALSE
                      ELSE IF ~ (i \in DOMAIN gc => gc[i] # NULL) THEN TRUE
                      ELSE i \in DOMAIN gc /\ gc[i] = yc[i]
  IN [gray |-> passGray, green |-> passGreen, yellow |-> passYellow]

\* Game.evaluateWord
evaluateWord(word, wfs) ==
  LET gc == greenChars(wfs)
      yc == yellowChars(wfs)
      gr == grayChars(wfs)
      passGray == ~ \E i \in DOMAIN gr : hasChar(word, gr[i])
      passGreen == \A i \in DOMAIN gc :
                      IF gc[i] = NULL THEN TRUE
                      ELSE i \in DOMAIN word /\ word[i] = gc[i]
      passYellow == \A i \in DOMAIN yc :
                      IF ~ hasChar(word, yc[i]) THEN FALSE
                      ELSE IF ~ (i \in DOMAIN gc => gc[i] # NULL) THEN TRUE
                      ELSE TRUE
  IN [gray |-> passGray, green |-> passGreen, yellow |-> passYellow]

----------------------------------------------------------------------------
(* Game.gradeWords *)

\* The numbers of gradeWords are IEEE-754 doubles.  Every double it computes
\* is k/5 + e * 2^-55 / 5 for two small integers k and e (k/5 is the value in
\* exact arithmetic, e the rounding error carried so far) and is held as the
\* pair <<k, e>>; sums and products of such pairs are exact, and RoundDouble
\* rounds an exact value to the nearest double, ties to even.
RECURSIVE Pow2(_)
Pow2(n) == IF n = 0 THEN 1 ELSE 2 * Pow2(n - 1)

RECURSIVE BinadeFrom(_, _, _)
\* the largest j >= from with 2^(j - 3) <= k/5 + e * 2^-55 / 5
BinadeFrom(k, e, from) ==
  IF \/ 5 * Pow2(from + 1) < 8 * k
     \/ (5 * Pow2(from + 1) = 8 * k /\ e >= 0)
    THEN BinadeFrom(k, e, from + 1)
    ELSE from

\* the nearest double to k/5 + e * 2^-55 / 5, for k >= 0.  In the binade
\* [2^(j - 3), 2^(j - 2)) the doubles are the multiples of 2^(j - 55), that
\* is the pairs <<k, x>> with x a multiple of 2^j and x + 3 * k a multiple of
\* 5 (2^55 leaves 3 modulo 5).
RoundDouble(k, e) ==
  IF k = 0 THEN <<0, 0>>
  ELSE LET j == BinadeFrom(k, e, 0)
           ulp == Pow2(j)
           step == 5 * ulp
           r == ulp * (CHOOSE t \in 0..4 : (ulp * t + 3 * k) % 5 = 0)
           lower == e - ((e - r) % step)
           upper == lower + step
       IN IF lower = e THEN <<k, e>>
          ELSE IF e - lower < upper - e THEN <<k, lower>>
          ELSE IF e - lower > upper - e THEN <<k, upper>>
          ELSE IF lower % (2 * ulp) = 0 THEN <<k, lower>>
          ELSE <<k, upper>>

\* n / 5 for an integer n
DoubleDiv5(n) == RoundDouble(n, 0)
\* x * w for a double x and an integer w; x * 1 is x
DoubleTimes(x, w) == IF w = 1 THEN x ELSE RoundDouble(x[1] * w, x[2] * w)
\* x + y; 0 + y is y
DoubleAdd(x, y) ==
  IF x = <<0, 0>> THEN y ELSE RoundDouble(x[1] + y[1], x[2] + y[2])
\* x < y
DoubleLess(x, y) == x[1] < y[1] \/ (x[1] = y[1] /\ x[2] < y[2])

RECURSIVE ValuableGrade(_, _, _)
\* word.characters.reduce((acc, c) => acc + CHARS_GRADING[c] / 5, 0), over the
\* first n characters
ValuableGrade(word, grading, n) ==
  IF n = 0 THEN <<0, 0>>
  ELSE DoubleAdd(ValuableGrade(word, grading, n - 1), DoubleDiv5(grading[word[n]]))

\* one entry of gradeWords' result
GradedWord(weights, word, existingCharacters, grading) ==
  LET existingCharactersGrade ==
        DoubleDiv5(Cardinality({i \in DOMAIN word : word[i] \notin existingCharacters}))
      repeatedCharactersGrade == DoubleDiv5(Cardinality(Range(word)))
      valuableCharactersGrade == ValuableGrade(word, grading, Len(word))
  IN [word |-> word,
      grade |-> <<DoubleTimes(existingCharactersGrade, weights[1]),
                  DoubleTimes(repeatedCharactersGrade, weights[2]),
                  DoubleTimes(valuableCharactersGrade, weights[3])>>]

\* grade.reduce((a, e) => a + e)
Score(gw) == DoubleAdd(DoubleAdd(gw.grade[1], gw.grade[2]), gw.grade[3])

RECURSIVE SortedIndexes(_, _)
\* the indexes 1..n of scores in the order .sort((a, b) => score(b) - score(a))
\* leaves them in: descending, and stable
SortedIndexes(scores, n) ==
  IF n = 0 THEN <<>>
  ELSE LET sorted == SortedIndexes(scores, n - 1)
           before == Cardinality({i \in DOMAIN sorted :
                                   ~ DoubleLess(scores[sorted[i]], scores[n])})
       IN SubSeq(sorted, 1, before) \o <<n>> \o SubSeq(sorted, before + 1, Len(sorted))

\* gradedWords.sort(...)
SortDesc(gws) ==
  LET scores == [i \in DOMAIN gws |-> Score(gws[i])] \o <<>>
      order == SortedIndexes(scores, Len(gws))
  IN [k \in DOMAIN gws |-> gws[order[k]]]

gradeWords(weights, words, wfs, grading) ==
  LET existingCharacters == (Range(greenChars(wfs)) \cup Range(yellowChars(wfs))) \ {NULL}
  IN SortDesc([i \in DOMAIN words |->
                 GradedWord(weights, words[i], existingCharacters, grading)])

----------------------------------------------------------------------------
(* Game.guessWord *)

\* allWords.filter((w) => !usedWords.includes(w.toString()))
availableWords(wfs, dict) ==
  LET used == Range(usedWords(wfs))
  IN SelectSeq(dict, LAMBDA w : w \notin used)

\* the keys of typeGradedWords, in insertion order
BucketKeys == <<"g", "v", "y", "gv", "gy", "yv", "gvy">>

\* whether a grade (the result of evaluateWord) belongs to the bucket of a key
InBucket(key, grade) ==
  CASE key = "g" -> grade.gray
    [] key = "v" -> grade.green
    [] key = "y" -> grade.yellow
    [] key = "gv" -> grade.gray /\ grade.green
    [] key = "gy" -> grade.gray /\ grade.yellow
    [] key = "yv" -> grade.green /\ grade.yellow
    [] key = "gvy" -> grade.gray /\ grade.green /\ grade.yellow

\* typeGradedWords, as the sequence of its values in key order
typeGradedWords(available, wfs) ==
  LET gradedWords == [i \in DOMAIN available |->
                        [grade |-> evaluateWord(available[i], wfs), word |-> available[i]]]
  IN [k \in DOMAIN BucketKeys |->
        LET kept == SelectSeq(gradedWords, LAMBDA e : InBucket(BucketKeys[k], e.grade))
        IN [i \in DOMAIN kept |-> kept[i].word]]

\* usedKey taking the first bucket of maximal length
usedKeyLargest(buckets) ==
  LET values == [k \in DOMAIN buckets |-> Len(buckets[k])]
      max == Max(Range(values))
  IN Min({k \in DOMAIN values : values[k] = max})

\* usedKey, as an index into BucketKeys: the first bucket of minimal length
usedKey(buckets) ==
  LET values == [k \in DOMAIN buckets |-> Len(buckets[k])]
      max == Min(Range(values))
  IN Min({k \in DOMAIN values : values[k] = max})

NoWordsRemaining == [kind |-> "NoWordsRemaining", word |-> <<>>]
TypeError == [kind |-> "TypeError", word |-> <<>>]
Returned(word) == [kind |-> "word", word |-> word]

\* guessWord without the branch for a single remaining word
guessWordNoForcedMove(weights, wfs, dict, grading) ==
  LET available == availableWords(wfs, dict)
  IN IF Len(available) = 0 THEN NoWordsRemaining
     ELSE LET buckets == typeGradedWords(available, wfs)
              ranked == gradeWords(weights, buckets[usedKey(buckets)], wfs, grading)
          IN IF ranked = <<>> THEN TypeError
             ELSE Returned(ranked[1].word)

\* the body of guessWord, with the weights it hands to gradeWords
guessWordWith(weights, wfs, dict, grading) ==
  LET available == availableWords(wfs, dict)
  IN IF Len(available) = 0 THEN NoWordsRemaining
     ELSE IF Len(available) = 1 THEN Returned(available[1])
     ELSE LET buckets == typeGradedWords(available, wfs)
              ranked == gradeWords(weights, buckets[usedKey(buckets)], wfs, grading)
          IN IF ranked = <<>> THEN TypeError   \* undefined.word
             ELSE Returned(ranked[1].word)

\* Game.guessWord: the weights are the literal [1, 1, 1]
guessWord(wfs, dict, grading) == guessWordWith(<<1, 1, 1>>, wfs, dict, grading)

----------------------------------------------------------------------------
(* Game.play *)

\* play(verbose = true, params = [1, 1, 1, 1])
DefaultParams == <<1, 1, 1, 1>>

\* guessWord handed the first three of play's params as weights
wordToTestParams(wfs, dict, grading, ps) ==
  guessWordWith(SubSeq(ps, 1, 3), wfs, dict, grading)

\* const wordToTest = this.guessWord(), inside play(verbose, ps)
wordToTest(wfs, dict, grading, ps) == guessWord(wfs, dict, grading)

RECURSIVE play(_, _, _, _, _)
\* a whole call of play(verbose, ps) on a game whose history is wfs: the
\* history it leaves and how it ends
play(wfs, secret, dict, grading, ps) ==
  LET g == wordToTest(wfs, dict, grading, ps)
  IN IF g.kind # "word" THEN [wordFilters |-> wfs, outcome |-> g.kind]
     ELSE LET result == newTry(g.word, secret)
              pushed == Append(wfs, result)
          IN IF isWin(result) THEN [wordFilters |-> pushed, outcome |-> "returned"]
             ELSE play(pushed, secret, dict, grading, DefaultParams)

----------------------------------------------------------------------------
(* Inputs: dictionaries, weight tables, parameter vectors *)

\* the word list read cyclically from index s (0-based) with stride d
Dict(s, d) ==
  [k \in 1..DictLen |-> WordList[((s + (k - 1) * d) % Len(WordList)) + 1]]

NoDuplicates(seq) == \A i, j \in DOMAIN seq : seq[i] = seq[j] => i = j

\* strides: neighbouring words, and words that differ in every letter
Strides == {1, (Len(WordList) - 1) \div 2}

Dicts ==
  {dict \in {Dict(s, d) : s \in 0..(Len(WordList) - 1), d \in Strides} :
     NoDuplicates(dict)}

CharIndex(c) == CHOOSE i \in DOMAIN CharSeq : CharSeq[i] = c

\* a weight table that tells the characters apart
IndexGrading == [c \in Chars |-> CharIndex(c)]

\* the same weights in the opposite order
ReverseGrading == [c \in Chars |-> Len(CharSeq) + 1 - CharIndex(c)]

\* getCharsGrading(): a weight per character
GradeTables == {[c \in Chars |-> 1], IndexGrading, ReverseGrading}

\* a longer alphabet, for dictionaries that take more than LoseAt tries
LongCharSeq == <<"a", "b", "c", "d", "e", "f", "g", "h", "i", "j">>

\* the word that ends in character c after WordLen - 1 copies of the first one
LongWord(c) == [i \in 1..WordLen |-> IF i < WordLen THEN LongCharSeq[1] ELSE c]

\* LongDictLen words that differ in their last character, read from index s
LongDict(s) ==
  [k \in 1..LongDictLen |-> LongWord(LongCharSeq[((s + k - 1) % LongDictLen) + 1])]

LongDicts == {LongDict(s) : s \in 0..(LongDictLen - 1)}

\* a word of the same shape that is in none of the LongDicts
OutsideWord == LongWord(LongCharSeq[LongDictLen + 1])

LongCharIndex(c) == CHOOSE i \in DOMAIN LongCharSeq : LongCharSeq[i] = c

\* getCharsGrading() over the longer alphabet
LongGradeTables ==
  {[c \in Range(LongCharSeq) |-> 1],
   [c \in Range(LongCharSeq) |-> LongCharIndex(c)],
   [c \in Range(LongCharSeq) |-> Len(LongCharSeq) + 1 - LongCharIndex(c)]}

\* the records new WordFilter([...]) can hold for a word: any colour at any index
HandFilters ==
  {[i \in 1..WordLen |-> Position(word[i], colours[i])] :
     word \in Words, colours \in [1..WordLen -> {GRAY, YELLOW, GREEN}]}

\* getRandomParams(4), and the default of play
ParamSet == {DefaultParams, <<5, 5, 0, 1>>, <<0, 0, 7, 3>>}

----------------------------------------------------------------------------
(* train *)

\* new Game(w, words) after game.play(false, ps)
GameOf(w, dict, grading, ps) == play(<<>>, w, dict, grading, ps)

\* the games loop() plays with ps, by secret
GamesOf(dict, grading, ps) ==
  [w \in Range(dict) |-> GameOf(w, dict, grading, ps)]

\* the games of every dictionary and parameter vector under one weight table
GamesTable(grading) ==
  [dict \in Dicts |-> [ps \in ParamSet |-> GamesOf(dict, grading, ps)]]

\* train's games, played once
TrainGames == GamesTable(IndexGrading)

\* a rational a = <<numerator, denominator>>, denominator > 0
Less(a, b) == a[1] * b[2] < b[1] * a[2]
LessEq(a, b) == a[1] * b[2] <= b[1] * a[2]

\* the reduce of loop(): the sum of tries / length over the sample, from 0,
\* where tries = game.wordFilters.length
measure(sample, games) ==
  IF sample = <<>> THEN <<0, 1>>
  ELSE <<SumSeq([i \in DOMAIN sample |-> Len(games[sample[i]].wordFilters)]),
         Len(sample)>>

\* shuffle(words.slice(0)).slice(0, children): any arrangement of distinct
\* entries of the dictionary, children long (or the whole dictionary)
Samples(dict, children) ==
  LET n == IF children < Len(dict) THEN children ELSE Len(dict)
      picks == {f \in [1..n -> DOMAIN dict] : NoDuplicates(f)}
  IN {[i \in 1..n |-> dict[f[i]]] : f \in picks}

----------------------------------------------------------------------------
(* States and actions *)

NoGuess == [kind |-> "none", word |-> <<>>]

\* train not started: let bestAvg = 100, bestAvgParams = []
TrainIdle ==
  /\ bestAvg = <<InitialBestAvg, 1>>
  /\ bestAvgParams = <<>>
  /\ generation = 0
  /\ avgs = <<>>
  /\ lastParams = <<>>

\* submitGuess: wordFilters.push(newTry(word))
SubmitGuess(word) ==
  /\ pc = "free"
  /\ Len(wordFilters) < MaxTries
  /\ wordFilters' = Append(wordFilters, newTry(word, secretWord))
  /\ guess' = NoGuess
  /\ UNCHANGED <<secretWord, allWords, params, charsGrading, pc>>
  /\ UNCHANGED trainVars

\* game.wordFilters.push(new WordFilter(positions)): a record built by hand
PushFilter(positions) ==
  /\ pc = "free"
  /\ Len(wordFilters) < MaxTries
  /\ wordFilters' = Append(wordFilters, positions)
  /\ guess' = NoGuess
  /\ UNCHANGED <<secretWord, allWords, params, charsGrading, pc>>
  /\ UNCHANGED trainVars

\* a call of guessWord() on the current history
CallGuessWord ==
  /\ pc = "free"
  /\ guess = NoGuess
  /\ guess' = guessWord(wordFilters, allWords, charsGrading)
  /\ UNCHANGED <<secretWord, allWords, wordFilters, params, charsGrading, pc>>
  /\ UNCHANGED trainVars

\* play with the return under 'LOSE D:' live: it stops at LoseAt records
PlayHaltsAtBudget ==
  /\ pc = "playing"
  /\ LET g == wordToTest(wordFilters, allWords, charsGrading, params)
     IN /\ guess' = g
        /\ IF g.kind # "word"
             THEN /\ pc' = "thrown"
                  /\ UNCHANGED <<wordFilters, params>>
             ELSE LET result == newTry(g.word, secretWord)
                  IN /\ wordFilters' = Append(wordFilters, result)
                     /\ IF isWin(result) \/ Len(wordFilters) + 1 = LoseAt
                          THEN pc' = "returned" /\ UNCHANGED params
                          ELSE pc' = "playing" /\ params' = DefaultParams
  /\ UNCHANGED <<secretWord, allWords, charsGrading>>
  /\ UNCHANGED trainVars

\* one call of play(verbose, params): guess, try, push, then return or recurse
Play ==
  /\ pc = "playing"
  /\ LET g == wordToTest(wordFilters, allWords, charsGrading, params)
     IN /\ guess' = g
        /\ IF g.kind # "word"
             THEN /\ pc' = "thrown"
                  /\ UNCHANGED <<wordFilters, params>>
             ELSE LET result == newTry(g.word, secretWord)
                  IN /\ wordFilters' = Append(wordFilters, result)
                     /\ IF isWin(result)
                          THEN pc' = "returned" /\ UNCHANGED params
                          ELSE pc' = "playing" /\ params' = DefaultParams
  /\ UNCHANGED <<secretWord, allWords, charsGrading>>
  /\ UNCHANGED trainVars

\* loop() keeping the last measured avg, whatever bestAvg is
LoopKeepLast(newParams, sample, games) ==
  /\ pc = "train"
  /\ generation < Generations
  /\ IF \E i \in DOMAIN sample : games[sample[i]].outcome # "returned"
       THEN /\ pc' = "thrown"
            /\ UNCHANGED trainVars
       ELSE LET avg == measure(sample, games)
            IN /\ bestAvg' = avg
               /\ bestAvgParams' = newParams
               /\ generation' = generation + 1
               /\ avgs' = Append(avgs, avg)
               /\ lastParams' = newParams
               /\ UNCHANGED pc
  /\ UNCHANGED gameVars

\* one generation of train: loop() with the sampled newParams and sample;
\* games[w] is the game it plays on secret w
Loop(newParams, sample, games) ==
  /\ pc = "train"
  /\ generation < Generations
  /\ IF \E i \in DOMAIN sample : games[sample[i]].outcome # "returned"
       THEN /\ pc' = "thrown"
            /\ UNCHANGED trainVars
       ELSE LET avg == measure(sample, games)
            IN /\ bestAvg' = IF Less(avg, bestAvg) THEN avg ELSE bestAvg
               /\ bestAvgParams' = IF Less(avg, bestAvg) THEN newParams ELSE bestAvgParams
               /\ generation' = generation + 1
               /\ avgs' = Append(avgs, avg)
               /\ lastParams' = newParams
               /\ UNCHANGED pc
  /\ UNCHANGED gameVars

\* return { bestAvg, bestAvgParams }
TrainReturn ==
  /\ pc = "train"
  /\ generation = Generations
  /\ pc' = "trained"
  /\ UNCHANGED gameVars
  /\ UNCHANGED trainVars

----------------------------------------------------------------------------
(* SpecTry: any words submitted against any secret *)

InitTry ==
  /\ secretWord \in Words
  /\ allWords = <<>>
  /\ wordFilters = <<>>
  /\ guess = NoGuess
  /\ params = DefaultParams
  /\ charsGrading = [c \in Chars |-> 1]
  /\ pc = "free"
  /\ TrainIdle

NextTry == \E word \in Words : SubmitGuess(word)

SpecTry == InitTry /\ [][NextTry]_vars

(* SpecGuess: dictionary words submitted in any order against any secret,   *)
(* and guessWord called on any history so reached                          *)

InitGuess ==
  /\ secretWord \in Words
  /\ allWords \in Dicts
  /\ wordFilters = <<>>
  /\ guess = NoGuess
  /\ params = DefaultParams
  /\ charsGrading \in {IndexGrading, ReverseGrading}
  /\ pc = "free"
  /\ TrainIdle

NextGuess ==
  \/ \E word \in Range(allWords) : SubmitGuess(word)
  \/ CallGuessWord

SpecGuess == InitGuess /\ [][NextGuess]_vars

(* SpecPlay: new Game(secret, words).play(verbose, params)                  *)

InitPlay ==
  /\ secretWord \in Words
  /\ allWords \in Dicts
  /\ wordFilters = <<>>
  /\ guess = NoGuess
  /\ params \in ParamSet
  /\ charsGrading \in GradeTables
  /\ pc = "playing"
  /\ TrainIdle

NextPlay == Play

\* play is one synchronous recursion: a pending call runs.  This is weak
\* fairness of Play, with ENABLED <<Play>>_vars written out as pc = "playing"
\* (Play has a successor, with one more record or another pc, exactly then).
PlayFairness == <>[](pc = "playing") => []<><<Play>>_vars

SpecPlay == InitPlay /\ [][NextPlay]_vars /\ PlayFairness

(* SpecTrain: train(Generations, Children) over a dictionary                *)

InitTrain ==
  /\ secretWord = <<>>
  /\ allWords \in Dicts
  /\ wordFilters = <<>>
  /\ guess = NoGuess
  /\ params = DefaultParams
  /\ charsGrading = IndexGrading
  /\ pc = "train"
  /\ TrainIdle

NextTrain ==
  \/ \E newParams \in ParamSet :
       \E games \in {TrainGames[allWords][newParams]} :
         \E sample \in Samples(allWords, Children) : Loop(newParams, sample, games)
  \/ TrainReturn

SpecTrain == InitTrain /\ [][NextTrain]_vars

(* SpecLongPlay: play() over a dictionary with more words than LoseAt,      *)
(* against each of its words and against a word outside it                 *)

InitLongPlay ==
  /\ allWords \in LongDicts
  /\ secretWord \in Range(allWords) \cup {OutsideWord}
  /\ wordFilters = <<>>
  /\ guess = NoGuess
  /\ params \in ParamSet
  /\ charsGrading \in LongGradeTables
  /\ pc = "playing"
  /\ TrainIdle

SpecLongPlay == InitLongPlay /\ [][NextPlay]_vars /\ PlayFairness

(* SpecHand: new Game('', words) with records pushed by hand, as the entry   *)
(* script does                                                             *)

InitHand ==
  /\ secretWord = <<>>
  /\ allWords \in Dicts
  /\ wordFilters = <<>>
  /\ guess = NoGuess
  /\ params = DefaultParams
  /\ charsGrading = IndexGrading
  /\ pc = "free"
  /\ TrainIdle

NextHand == \E positions \in HandFilters : PushFilter(positions)

SpecHand == InitHand /\ [][NextHand]_vars

----------------------------------------------------------------------------
(* Properties of newTry and of the derived constraint sets (SpecTry) *)

\* the colour the feedback rule gives guess G at index i against secret S
Expected(G, S, i) ==
  IF G[i] = S[i] THEN GREEN
  ELSE IF (\E j \in DOMAIN S : S[j] = G[i])
          /\ ~ (\E j \in DOMAIN G : G[j] = S[j] /\ G[j] = G[i])
    THEN YELLOW
  ELSE GRAY

LastRecord(wfs) == wfs[Len(wfs)]

\* C1: the record newTry(G) appends has, at each index i, the character G[i]
\* and the colour GREEN iff G[i] = S[i], else YELLOW iff S contains G[i] and
\* G[i] is GREEN at no index of the record, else GRAY; no character is GREEN
\* and YELLOW in one record.
C1_FeedbackRule ==
  [][\A word \in Words :
       SubmitGuess(word) =>
         LET r == LastRecord(wordFilters')
         IN /\ Len(r) = Len(word)
            /\ \A i \in DOMAIN r :
                 /\ r[i].character = word[i]
                 /\ r[i].value = Expected(word, secretWord, i)
            /\ \A i, j \in DOMAIN r :
                 ~ (/\ r[i].value = GREEN
                    /\ r[j].value = YELLOW
                    /\ r[i].character = r[j].character)]_vars

\* a record where a repeated letter is GREEN at one index and was downgraded
\* from YELLOW to GRAY at another
Downgraded(r) ==
  \E i, j \in DOMAIN r :
    /\ r[i].value = GREEN
    /\ r[j].value = GRAY
    /\ r[i].character = r[j].character
    /\ hasChar(secretWord, r[j].character)

C1_Witness ==
  /\ \E k \in DOMAIN wordFilters : Downgraded(wordFilters[k])
  /\ \E k \in DOMAIN wordFilters :
       \E i \in DOMAIN wordFilters[k] : wordFilters[k][i].value = YELLOW

\* C2: a record is a win iff its guess equals the secret character for
\* character, and the post-pass of newTry does not change whether it is a win.
C2_WinIffEqual ==
  \A k \in DOMAIN wordFilters :
    LET r == wordFilters[k]
    IN /\ isWin(r) <=> (WordOf(r) = secretWord)
       /\ isWin(r) <=> isWin(FirstPass(WordOf(r), secretWord))

C2_Witness ==
  /\ \E k \in DOMAIN wordFilters : isWin(wordFilters[k])
  /\ \E k \in DOMAIN wordFilters :
       /\ ~ isWin(wordFilters[k])
       /\ \E i \in DOMAIN wordFilters[k] : wordFilters[k][i].value = GREEN

GreenSet(wfs) == Range(greenChars(wfs)) \ {NULL}
YellowSet(wfs) == Range(yellowChars(wfs))
GraySet(wfs) == Range(grayChars(wfs))

\* C4: after any sequence of submitGuess calls against one secret, no
\* character is in two of greenChars, yellowChars and grayChars.
C4_Disjoint ==
  LET green == GreenSet(wordFilters)
      yellow == YellowSet(wordFilters)
      gray == GraySet(wordFilters)
  IN /\ green \cap yellow = {}
     /\ green \cap gray = {}
     /\ yellow \cap gray = {}

C4_Witness ==
  /\ GreenSet(wordFilters) # {}
  /\ YellowSet(wordFilters) # {}
  /\ GraySet(wordFilters) # {}
  /\ Range(ColourChars(wordFilters, YELLOW)) \cap GreenSet(wordFilters) # {}

\* C5: after any sequence of submitGuess calls against the secret S,
\* evaluateWord(S) reports gray, green and yellow all true.
C5_SecretPasses ==
  evaluateWord(secretWord, wordFilters) =
    [gray |-> TRUE, green |-> TRUE, yellow |-> TRUE]

C5_Witness ==
  /\ \E k \in DOMAIN wordFilters : Downgraded(wordFilters[k])
  /\ GraySet(wordFilters) # {}
  /\ GreenSet(wordFilters) # {}
  /\ \A k \in DOMAIN wordFilters : ~ isWin(wordFilters[k])

\* C8 as stated: once a record has GREEN at index i, every later record has
\* GREEN at index i.
C8_GreenNeverRegresses ==
  \A k, m \in DOMAIN wordFilters :
    \A i \in DOMAIN wordFilters[k] :
      (k < m /\ wordFilters[k][i].value = GREEN)
        => wordFilters[m][i].value = GREEN

\* C8 amended: once a record has GREEN at index i with character c,
\* greenChars[i] is c after every later submitGuess, and a later record is
\* GREEN at index i exactly when its guess has c at index i.
C8_GreenFactStays ==
  LET gc == greenChars(wordFilters)
  IN \A k, m \in DOMAIN wordFilters :
       \A i \in DOMAIN wordFilters[k] :
         (k <= m /\ wordFilters[k][i].value = GREEN)
           => /\ gc[i] = wordFilters[k][i].character
              /\ (wordFilters[m][i].value = GREEN)
                   <=> (wordFilters[m][i].character = wordFilters[k][i].character)

C8_Witness ==
  \E k, m \in DOMAIN wordFilters :
    \E i, j \in DOMAIN wordFilters[k] :
      /\ k < m
      /\ wordFilters[k][i].value = GREEN
      /\ wordFilters[m][i].value = GREEN
      /\ wordFilters[k][j].value = GREEN
      /\ wordFilters[m][j].value # GREEN

----------------------------------------------------------------------------
(* Properties of guessWord and play (SpecGuess, SpecPlay) *)

\* the words guessed before the last record was pushed
GuessedBefore == {WordOf(wordFilters[k]) : k \in 1..(Len(wordFilters) - 1)}

C3_Safe ==
  /\ pc # "thrown"
  /\ Len(wordFilters) <= Len(allWords)
  /\ guess.kind = "word" =>
       /\ guess.word \in Range(allWords)
       /\ guess.word \notin GuessedBefore
       /\ guess.word = WordOf(LastRecord(wordFilters))
  /\ pc = "returned" <=> (wordFilters # <<>> /\ isWin(LastRecord(wordFilters)))

\* C3: with a duplicate-free dictionary that holds the secret, play() reaches
\* a winning record after at most as many tries as the dictionary has words,
\* and every guess is a dictionary word not guessed before.
C3_PlayWins ==
  /\ []((NoDuplicates(allWords) /\ secretWord \in Range(allWords)) => C3_Safe)
  /\ (NoDuplicates(allWords) /\ secretWord \in Range(allWords))
       ~> (/\ pc = "returned"
           /\ isWin(LastRecord(wordFilters))
           /\ Len(wordFilters) <= Len(allWords))

C3_Witness ==
  /\ secretWord \in Range(allWords)
  /\ pc = "returned"
  /\ Len(wordFilters) = Len(allWords)

\* the dictionary words not guessed yet
Unguessed == {w \in Range(allWords) : w \notin Range(usedWords(wordFilters))}

\* C6: a call of guessWord returns a dictionary word not guessed yet or fails
\* with the no-candidates error, and fails so exactly when every dictionary
\* word has been guessed.
C6_WordOrNoCandidates ==
  guess.kind # "none" =>
    /\ guess.kind \in {"word", "NoWordsRemaining"}
    /\ guess.kind = "word" => guess.word \in Unguessed
    /\ guess.kind = "NoWordsRemaining" <=> Unguessed = {}

AllPass == [gray |-> TRUE, green |-> TRUE, yellow |-> TRUE]

C10_ParamsIgnored ==
  pc \in {"returned", "thrown"} =>
    \A ps \in ParamSet :
      LET other == GameOf(secretWord, allWords, charsGrading, ps)
      IN /\ other.wordFilters = wordFilters
         /\ other.outcome = IF pc = "returned" THEN "returned" ELSE guess.kind

C10_Witness ==
  /\ pc = "returned"
  /\ Len(wordFilters) >= 2
  /\ guess.kind = "word"
  /\ \E ps \in ParamSet :
       guessWordWith(SubSeq(ps, 1, 3), <<>>, allWords, charsGrading).word
         # WordOf(wordFilters[1])

----------------------------------------------------------------------------
(* Properties of train (SpecTrain) *)

\* C7: each generation leaves bestAvg no larger than it was and no larger than
\* the mean measured in that generation, so bestAvg is at most the mean of
\* the first sampled vector; bestAvgParams changes only in a generation that
\* strictly lowers bestAvg, and then to the vector sampled in it.
C7_BestAvgMonotone ==
  /\ [](avgs # <<>> => LessEq(bestAvg, avgs[1]))
  /\ [][generation' # generation =>
          /\ LessEq(bestAvg', bestAvg)
          /\ LessEq(bestAvg', avgs'[Len(avgs')])
          /\ bestAvgParams' # bestAvgParams => Less(bestAvg', bestAvg)
          /\ Less(bestAvg', bestAvg) => bestAvgParams' = lastParams']_vars

C7_Witness ==
  /\ pc = "trained"
  /\ Len(avgs) >= 2
  /\ Less(avgs[2], avgs[1])
  /\ bestAvg = avgs[2]
  /\ bestAvgParams = lastParams

----------------------------------------------------------------------------
(* Properties of play beyond the nominal budget (SpecLongPlay) *)

\* the history holds LoseAt records and none of them is a win
AtBudgetNoWin ==
  /\ Len(wordFilters) = LoseAt
  /\ ~ isWin(LastRecord(wordFilters))

\* C11: play returns only in the step that appends a winning record, the
\* history is never extended after a winning record, and a history that
\* reaches LoseAt records without a win is extended by a further guess.
C11_NoBudgetHalt ==
  /\ [][pc' = "returned" =>
          /\ pc = "playing"
          /\ Len(wordFilters') = Len(wordFilters) + 1
          /\ isWin(LastRecord(wordFilters'))]_vars
  /\ [][(wordFilters # <<>> /\ isWin(LastRecord(wordFilters)))
          => wordFilters' = wordFilters]_vars
  /\ [](AtBudgetNoWin => pc = "playing")
  /\ AtBudgetNoWin ~> (Len(wordFilters) > LoseAt)

C11_Witness ==
  /\ pc = "returned"
  /\ Len(wordFilters) > LoseAt
  /\ isWin(LastRecord(wordFilters))
  /\ \A k \in 1..LoseAt : ~ isWin(wordFilters[k])

----------------------------------------------------------------------------
(* Properties of the candidate pool and of the forced move (SpecGuess) *)

\* C12: each submitGuess leaves a pool (the dictionary words not guessed yet,
\* in dictionary order) that is a subset of the pool before it and no longer,
\* no guessed word is in it, and submitting the word guessWord has just
\* returned removes that word and nothing else.
C12_PoolNeverRegrows ==
  [][wordFilters' # wordFilters =>
       LET before == availableWords(wordFilters, allWords)
           after == availableWords(wordFilters', allWords)
           word == WordOf(LastRecord(wordFilters'))
       IN /\ Range(after) \subseteq Range(before)
          /\ Len(after) <= Len(before)
          /\ \A k \in DOMAIN wordFilters' : WordOf(wordFilters'[k]) \notin Range(after)
          /\ (guess.kind = "word" /\ guess.word = word) =>
               /\ after = SelectSeq(before, LAMBDA w : w # word)
               /\ Len(after) = Len(before) - 1]_vars

\* two tries, the first of them the word guessWord returns on the empty
\* history, and a pool that lost both words
C12_Witness ==
  /\ Len(wordFilters) >= 2
  /\ WordOf(wordFilters[1]) = guessWord(<<>>, allWords, charsGrading).word
  /\ Len(availableWords(wordFilters, allWords)) = Len(allWords) - 2

\* C13: when one dictionary word is left unguessed, guessWord returns that
\* word, whether or not it passes gray, green and yellow and whatever the
\* weight table is.
C13_ForcedMove ==
  LET available == availableWords(wordFilters, allWords)
  IN Len(available) = 1 =>
       /\ \A grading \in GradeTables :
            guessWord(wordFilters, allWords, grading) = Returned(available[1])
       /\ guess.kind # "none" => guess = Returned(available[1])

\* guessWord has returned the one word left, a word the history rules out
C13_Witness ==
  /\ Len(availableWords(wordFilters, allWords)) = 1
  /\ guess.kind = "word"
  /\ evaluateWord(guess.word, wordFilters) # AllPass

----------------------------------------------------------------------------
(* Properties of the ranking inside the chosen bucket (SpecGuess) *)

\* the length of a word times its score under the weights [1, 1, 1]: the
\* occurrences of characters that are neither a green nor a yellow character,
\* plus the distinct characters, plus the sum of the characters' weights
ScoreTimesLen(word, wfs, grading) ==
  LET known == (Range(greenChars(wfs)) \cup Range(yellowChars(wfs))) \ {NULL}
  IN Cardinality({i \in DOMAIN word : word[i] \notin known})
       + Cardinality(Range(word))
       + SumSeq([i \in DOMAIN word |-> grading[word[i]]])

\* C14: on the bucket path the word guessWord returns is a member of the
\* chosen bucket, no member of the bucket has a larger score, and every member
\* that comes before it in pool order has a strictly smaller score.
C14_TopOfBucket ==
  LET available == availableWords(wordFilters, allWords)
      buckets == typeGradedWords(available, wordFilters)
      chosen == buckets[usedKey(buckets)]
      top == ScoreTimesLen(guess.word, wordFilters, charsGrading)
  IN (Len(available) >= 2 /\ guess.kind = "word") =>
       \E n \in DOMAIN chosen :
         /\ chosen[n] = guess.word
         /\ \A j \in DOMAIN chosen :
              ScoreTimesLen(chosen[j], wordFilters, charsGrading) <= top
         /\ \A j \in 1..(n - 1) :
              ScoreTimesLen(chosen[j], wordFilters, charsGrading) < top

----------------------------------------------------------------------------
(* Properties of the constraint sets on any history (SpecHand) *)

\* the characters that have the colour in some record of the history
ColouredSomewhere(colour) ==
  {wordFilters[k][i].character : <<k, i>> \in
     {<<k, i>> \in (DOMAIN wordFilters) \X (1..WordLen) :
        wordFilters[k][i].value = colour}}

\* C15: on any history, records pushed by hand included, yellowChars is the
\* set of characters YELLOW in some record minus the values of greenChars,
\* and grayChars is the set of characters GRAY in some record minus
\* yellowChars and minus the values of greenChars.
C15_SetsOnAnyHistory ==
  LET greenByPosition == Range(greenChars(wordFilters)) \ {NULL}
      yellowSet == ColouredSomewhere(YELLOW) \ greenByPosition
  IN /\ Range(yellowChars(wordFilters)) = yellowSet
     /\ Range(grayChars(wordFilters))
          = (ColouredSomewhere(GRAY) \ yellowSet) \ greenByPosition

----------------------------------------------------------------------------
(* Properties of WordFilter.doesWordPass (SpecTry) *)

\* C16: every record newTry computes for a guess against the secret is
\* passed by the secret: doesWordPassGreen, doesWordPassYellow and
\* doesWordPassGray all hold of it.
C16_SecretPassesRecord ==
  \A k \in DOMAIN wordFilters :
    /\ doesWordPass(wordFilters[k], secretWord)
    /\ doesWordPassGreen(wordFilters[k], secretWord)
    /\ doesWordPassYellow(wordFilters[k], secretWord)
    /\ doesWordPassGray(wordFilters[k], secretWord)

====
